---- MODULE Spec2Model ----
(***************************************************************************)
(* Leaderboard ranking and caching of pick5_v6.                            *)
(*                                                                         *)
(* The model covers the Leaderboard page (src/src/pages/Leaderboard.tsx):  *)
(* fetchCompletedMatches, calculateLeaderboard, fetchLeaderboard and       *)
(* handleMatchChange, run by several page instances against one Firestore  *)
(* database, together with the match administration page                  *)
(* (src/unnamed/part_000: handleUpdate, handleDelete, handleStatusChange)  *)
(* and the writers of predictions and of player targets.                   *)
(*                                                                         *)
(* Every `await` of the source is a point where other page instances and   *)
(* the other writers may run, so every store access is one action: the     *)
(* action is the resumption of the async function after the access, up to  *)
(* the next `await` or to the end of the handler.                          *)
(***************************************************************************)
EXTENDS Integers, Sequences, FiniteSets, TLC

\* ------------------------------------------------------------------ bounds
MaxClock == 1        \* the clock ticks at most this many times
TickMs == 500        \* milliseconds per tick of the clock
MaxCalls == 2        \* fetchLeaderboard calls per page instance
MaxWriterOps == 1    \* writes by the other writers (admin, users, scorer)
MaxPreds == 3        \* prediction documents
MaxPoints == 2       \* greatest actual points value
MaxListed == 13      \* prediction documents of the long list

\* ------------------------------------------------------- program constants
TopN == 10           \* .slice(0, 10)
TopLabel == 20       \* the heading "Top 20 Players"

\* -------------------------------------------------------------- value sets
Clients == {"c1", "c2"}
MatchIds == {"m1", "m2"}
Players == {"p1", "p2", "p3"}
PredIds == 1..MaxPreds
\* the user who owns prediction document d
UserOf(d) ==
  <<"u1", "u2", "u3", "u4", "u5", "u6", "u7", "u8", "u9", "u10", "u11",
    "u12", "u13", "u14", "u15", "u16">>[d]
Statuses == {"upcoming", "live", "completed"}
MatchSeconds == {1, 2}

\* rank of a document id in Firestore's default order (by document name)
IdRank(m) == IF m = "m1" THEN 1 ELSE 2

\* ---------------------------------------------------- Firestore timestamps
\* Timestamp.fromDate / Timestamp.toDate: a JS Date holds milliseconds, a
\* Firestore Timestamp holds seconds and nanoseconds.
FromDate(d) ==
  [seconds |-> d.ms \div 1000, nanoseconds |-> (d.ms % 1000) * 1000000]

ToDate(ts) == [ms |-> ts.seconds * 1000 + ts.nanoseconds \div 1000000]

\* ------------------------------------------------------------- documents
NoDoc == [exists |-> FALSE]

MatchDoc(s, secs) ==
  [exists |-> TRUE, status |-> s,
   timestamp |-> [seconds |-> secs, nanoseconds |-> 0]]

\* players/{p}.matchTargets[m]: none, or target with optional actualPoints
\* (actualPoints is <<>> when undefined, <<v>> when recorded)
NoTarget == [exists |-> FALSE]

Target(t, a) == [exists |-> TRUE, target |-> t, actualPoints |-> a]

\* the e-mail address of a user, as the characters split('@') works on
Email(u) == <<u, "@", "mail">>

PredictionDoc(u, m, sel) ==
  [exists |-> TRUE, userId |-> u, userEmail |-> Email(u), matchId |-> m,
   selectedPlayers |-> sel]

VARIABLES
  \* the Firestore collections
  matches,        \* [MatchIds -> match document or NoDoc]
  predictions,    \* [PredIds -> prediction document or NoDoc]
  players,        \* [Players -> [MatchIds -> target record or NoTarget]]
  leaderboards,   \* [MatchIds -> snapshot document or NoDoc]
  now,            \* the clock, in milliseconds
  \* the other writers' bookkeeping
  submitOrder,    \* prediction document ids in the order of submission
  writerOps,      \* writes by the other writers so far
  \* one Leaderboard page instance per client: React state
  leaderboard, loading, selectedMatch, completedMatches,
  \* the async call in flight of each page instance
  pc,             \* the await the instance is suspended at
  matchId,        \* argument of fetchLeaderboard / calculateLeaderboard
  playersData,    \* calculateLeaderboard's playersData
  matchDetails,   \* calculateLeaderboard's matchDetails
  leaderboardData,\* fetchLeaderboard's leaderboardData
  lastUpdated,    \* the lastUpdated of the setDoc in flight
  calls,          \* fetchLeaderboard calls begun by the instance
  \* history
  log,            \* store accesses of the instance's current or last call
  writes,         \* [MatchIds -> number of snapshot writes persisted]
  returned,       \* [MatchIds -> results handed to setLeaderboard]
  thrown          \* the error fetchLeaderboard's caller received

stores == <<matches, predictions, players, leaderboards>>
env == <<now, submitOrder, writerOps>>
page == <<leaderboard, loading, selectedMatch, completedMatches>>
call == <<pc, matchId, playersData, matchDetails, leaderboardData,
          lastUpdated, calls, thrown>>
hist == <<log, writes, returned>>
vars == <<stores, env, page, call, hist>>

\* ------------------------------------------------- Firestore queries
\* the ids in a set of document ids, in Firestore's default order
RECURSIVE InIdOrder(_)
InIdOrder(ids) ==
  IF ids = {} THEN <<>>
  ELSE LET d == CHOOSE x \in ids : \A y \in ids : x <= y
       IN <<d>> \o InIdOrder(ids \ {d})

RECURSIVE MatchesInIdOrder(_)
MatchesInIdOrder(ids) ==
  IF ids = {} THEN <<>>
  ELSE LET d == CHOOSE x \in ids : \A y \in ids : IdRank(x) <= IdRank(y)
       IN <<d>> \o MatchesInIdOrder(ids \ {d})

\* query(predictions, where('matchId', '==', m)): the documents' data
QueryPredictions(preds, m) ==
  LET ids == InIdOrder({d \in DOMAIN preds :
                          preds[d].exists /\ preds[d].matchId = m})
  IN [i \in 1..Len(ids) |-> preds[ids[i]]]

\* query(matches, where('status', '==', 'completed')), mapped to Match:
\* { id, ...doc.data(), timestamp: doc.data().timestamp.toDate() }
QueryCompleted(ms) ==
  LET ids == MatchesInIdOrder({m \in DOMAIN ms :
                                 ms[m].exists /\ ms[m].status = "completed"})
  IN [i \in 1..Len(ids) |->
        [id |-> ids[i], status |-> ms[ids[i]].status,
         timestamp |-> ToDate(ms[ids[i]].timestamp)]]

\* ------------------------------------------------ Array.prototype.sort
\* The sort is stable: an element goes after every element that the
\* comparator does not put behind it.
RECURSIVE InsertByTimestamp(_, _)
InsertByTimestamp(s, x) ==
  IF s = <<>> THEN <<x>>
  ELSE IF Head(s).timestamp.ms - x.timestamp.ms < 0
       THEN <<x>> \o s
       ELSE <<Head(s)>> \o InsertByTimestamp(Tail(s), x)

\* the sort left out: the matches stay in the order of the query
AsQueried(s) == s

\* matches.sort((a, b) => b.timestamp.getTime() - a.timestamp.getTime())
RECURSIVE SortByTimestamp(_)
SortByTimestamp(s) ==
  IF s = <<>> THEN <<>>
  ELSE InsertByTimestamp(SortByTimestamp(SubSeq(s, 1, Len(s) - 1)), s[Len(s)])

RECURSIVE InsertByCorrect(_, _)
InsertByCorrect(s, x) ==
  IF s = <<>> THEN <<x>>
  ELSE IF Head(s).correctPredictions - x.correctPredictions < 0
       THEN <<x>> \o s
       ELSE <<Head(s)>> \o InsertByCorrect(Tail(s), x)

\* the comparator's operands exchanged: a.correctPredictions - b.correctPredictions
RECURSIVE SortByCorrectAscending(_)
SortByCorrectAscending(s) ==
  IF s = <<>> THEN <<>>
  ELSE LET rest == SortByCorrectAscending(Tail(s))
           lower == SelectSeq(rest, LAMBDA e :
                      e.correctPredictions < Head(s).correctPredictions)
           upper == SelectSeq(rest, LAMBDA e :
                      e.correctPredictions >= Head(s).correctPredictions)
       IN lower \o <<Head(s)>> \o upper

\* .sort((a, b) => b.correctPredictions - a.correctPredictions)
RECURSIVE SortByCorrect(_)
SortByCorrect(s) ==
  IF s = <<>> THEN <<>>
  ELSE InsertByCorrect(SortByCorrect(SubSeq(s, 1, Len(s) - 1)), s[Len(s)])

\* the slice left out: every entry is kept
Uncut(s, n) == s

\* .slice(0, n)
Slice(s, n) == SubSeq(s, 1, IF Len(s) < n THEN Len(s) ELSE n)

\* ------------------------------------------------ calculateLeaderboard
\* playersData[playerId]?.matchTargets?.[matchId]
PlayerTarget(pdata, p, m) ==
  IF p \in DOMAIN pdata /\ m \in DOMAIN pdata[p] THEN pdata[p][m] ELSE NoTarget

\* `>` written for `>=`
IsCorrectStrict(target) ==
  /\ target.exists
  /\ target.actualPoints # <<>>
  /\ target.actualPoints[1] > target.target

\* the body of the reduce callback: does this pick add one
IsCorrect(target) ==
  /\ target.exists
  /\ target.actualPoints # <<>>
  /\ target.actualPoints[1] >= target.target

\* the reduce started from 1 instead of 0
CorrectPredictionsFromOne(sel, pdata, m) ==
  1 + Cardinality({k \in 1..Len(sel) : IsCorrect(PlayerTarget(pdata, sel[k], m))})

\* prediction.selectedPlayers.reduce(..., 0)
RECURSIVE CorrectPredictions(_, _, _)
CorrectPredictions(sel, pdata, m) ==
  IF sel = <<>> THEN 0
  ELSE CorrectPredictions(SubSeq(sel, 1, Len(sel) - 1), pdata, m)
       + (IF IsCorrect(PlayerTarget(pdata, sel[Len(sel)], m)) THEN 1 ELSE 0)

\* userEmail.split('@')[0]
RECURSIVE DisplayName(_)
DisplayName(email) ==
  IF email = <<>> \/ Head(email) = "@" THEN <<>>
  ELSE <<Head(email)>> \o DisplayName(Tail(email))

\* the object pushed on leaderboardData for one prediction
Entry(prediction, pdata, m, mdetails, date) ==
  [userId |-> prediction.userId,
   userEmail |-> prediction.userEmail,
   displayName |-> DisplayName(prediction.userEmail),
   correctPredictions |-> CorrectPredictions(prediction.selectedPlayers, pdata, m),
   totalPredictions |-> Len(prediction.selectedPlayers),
   matchId |-> prediction.matchId,
   matchDetails |-> mdetails,
   timestamp |-> date]

\* { id: matchDoc.id, ...matchDoc.data() }
MatchDetails(m, doc) ==
  [id |-> m, status |-> doc.status, timestamp |-> doc.timestamp]

NoMatchDetails == [id |-> "", status |-> "", timestamp |-> [seconds |-> 0, nanoseconds |-> 0]]

\* leaderboardData.sort(...).slice(0, 10)
Ranked(entries) == Slice(SortByCorrect(entries), TopN)

\* the value calculateLeaderboard returns once the predictions are read
Calculate(m, pdata, mdetails, preds, date) ==
  Ranked([i \in 1..Len(preds) |-> Entry(preds[i], pdata, m, mdetails, date)])

\* ------------------------------------------------------ fetchLeaderboard
\* what setDoc stores for an entry: a Date becomes a Timestamp
ToFirestore(entry) == [entry EXCEPT !.timestamp = FromDate(@)]

\* { ...entry, timestamp: entry.timestamp?.toDate() || new Date() }
FromCache(entry, date) ==
  IF "timestamp" \in DOMAIN entry
    THEN [entry EXCEPT !.timestamp = ToDate(@)]
    ELSE [f \in DOMAIN entry \cup {"timestamp"} |->
            IF f = "timestamp" THEN date ELSE entry[f]]

SnapshotDoc(entries, date) ==
  [exists |-> TRUE,
   entries |-> [i \in 1..Len(entries) |-> ToFirestore(entries[i])],
   lastUpdated |-> FromDate(date)]

\* every entry given the time of the read: timestamp: new Date()
CachedEntriesFresh(doc, date) ==
  [i \in 1..Len(doc.entries) |-> [doc.entries[i] EXCEPT !.timestamp = date]]

\* data.entries.map(...)
CachedEntries(doc, date) ==
  [i \in 1..Len(doc.entries) |-> FromCache(doc.entries[i], date)]

\* the length test dropped
ShouldCacheAlways(data) == TRUE

\* the length test inverted
ShouldCacheNever(data) == Len(data) < 0

\* if (leaderboardData.length > 0)
ShouldCache(data) == Len(data) > 0

\* ------------------------------------------------------------ page state
NoPlayersData == [p \in Players |-> [m \in MatchIds |-> NoTarget]]
NoDate == [ms |-> 0]
Date == [ms |-> now]

CalcAwaits == {"getPlayers", "getMatch", "getPredictions"}

\* a store access of the call failed, or the match was not found
Errored(l) == \E i \in 1..Len(l) : l[i][2] \in {"fail", "absent"}

\* useState initial values (lines 20-23); the effect has not run yet
NewPage(c) ==
  /\ leaderboard' = [leaderboard EXCEPT ![c] = <<>>]
  /\ loading' = [loading EXCEPT ![c] = TRUE]
  /\ selectedMatch' = [selectedMatch EXCEPT ![c] = "all"]
  /\ completedMatches' = [completedMatches EXCEPT ![c] = <<>>]

\* the error that leaves calculateLeaderboard when `err` is thrown inside
\* its try block: none, the catch block returns []
CalculateCatch(err) == "none"

\* the error that leaves fetchLeaderboard when `err` is thrown inside its
\* try block: none, the catch block calls setLeaderboard([])
FetchCatch(err) == "none"

\* fetchLeaderboard without its setLoading(true): loading stays as it was
BeginFetchNoSpinner(c, m) ==
  /\ loading' = loading
  /\ pc' = [pc EXCEPT ![c] = "getCache"]
  /\ matchId' = [matchId EXCEPT ![c] = m]
  /\ calls' = [calls EXCEPT ![c] = @ + 1]
  /\ log' = [log EXCEPT ![c] = <<>>]
  /\ thrown' = [thrown EXCEPT ![c] = "none"]
  /\ UNCHANGED <<playersData, matchDetails, leaderboardData, lastUpdated>>

\* fetchLeaderboard up to its first await: setLoading(true), getDoc issued
BeginFetch(c, m) ==
  /\ loading' = [loading EXCEPT ![c] = TRUE]
  /\ pc' = [pc EXCEPT ![c] = "getCache"]
  /\ matchId' = [matchId EXCEPT ![c] = m]
  /\ calls' = [calls EXCEPT ![c] = @ + 1]
  /\ log' = [log EXCEPT ![c] = <<>>]
  /\ thrown' = [thrown EXCEPT ![c] = "none"]
  /\ UNCHANGED <<playersData, matchDetails, leaderboardData, lastUpdated>>

\* fetchLeaderboard from setLeaderboard(data) to the end of `finally`
EndFetch(c, data, event, err) ==
  /\ leaderboard' = [leaderboard EXCEPT ![c] = data]
  /\ loading' = [loading EXCEPT ![c] = FALSE]
  /\ pc' = [pc EXCEPT ![c] = "idle"]
  /\ playersData' = [playersData EXCEPT ![c] = NoPlayersData]
  /\ matchDetails' = [matchDetails EXCEPT ![c] = NoMatchDetails]
  /\ leaderboardData' = [leaderboardData EXCEPT ![c] = <<>>]
  /\ lastUpdated' = [lastUpdated EXCEPT ![c] = NoDate]
  /\ log' = [log EXCEPT ![c] = Append(@, event)]
  /\ thrown' = [thrown EXCEPT ![c] = err]
  /\ returned' = [returned EXCEPT ![matchId[c]] =
                    @ \cup {[entries |-> data,
                             error |-> Errored(Append(log[c], event))]}]
  /\ UNCHANGED <<selectedMatch, completedMatches, matchId, calls>>

\* ------------------------------------------------- fetchCompletedMatches
\* useEffect(() => { fetchCompletedMatches(); }, []): the query is issued
Mount(c) ==
  /\ pc[c] = "new"
  /\ calls[c] < MaxCalls
  /\ pc' = [pc EXCEPT ![c] = "getMatches"]
  /\ UNCHANGED <<stores, env, page, matchId, playersData, matchDetails,
                 leaderboardData, lastUpdated, calls, hist, thrown>>

\* the last match of the sorted list taken instead of the first
ListMatchesLast(c) ==
  /\ pc[c] = "getMatches"
  /\ LET ms == SortByTimestamp(QueryCompleted(matches))
     IN /\ Len(ms) > 0
        /\ completedMatches' = [completedMatches EXCEPT ![c] = ms]
        /\ selectedMatch' = [selectedMatch EXCEPT ![c] = ms[Len(ms)].id]
        /\ BeginFetch(c, ms[Len(ms)].id)
  /\ UNCHANGED <<stores, env, leaderboard, writes, returned>>

\* the query returned at least one completed match
ListMatches(c) ==
  /\ pc[c] = "getMatches"
  /\ LET ms == SortByTimestamp(QueryCompleted(matches))
     IN /\ Len(ms) > 0
        /\ completedMatches' = [completedMatches EXCEPT ![c] = ms]
        /\ selectedMatch' = [selectedMatch EXCEPT ![c] = ms[1].id]
        /\ BeginFetch(c, ms[1].id)
  /\ UNCHANGED <<stores, env, leaderboard, writes, returned>>

\* the query returned no completed match
ListMatchesEmpty(c) ==
  /\ pc[c] = "getMatches"
  /\ Len(QueryCompleted(matches)) = 0
  /\ completedMatches' = [completedMatches EXCEPT ![c] = <<>>]
  /\ loading' = [loading EXCEPT ![c] = FALSE]
  /\ pc' = [pc EXCEPT ![c] = "idle"]
  /\ UNCHANGED <<stores, env, leaderboard, selectedMatch, matchId,
                 playersData, matchDetails, leaderboardData, lastUpdated,
                 calls, hist, thrown>>

\* the catch block without its setLoading(false)
ListMatchesFailStuck(c) ==
  /\ pc[c] = "getMatches"
  /\ pc' = [pc EXCEPT ![c] = "idle"]
  /\ UNCHANGED <<stores, env, page, matchId, playersData, matchDetails,
                 leaderboardData, lastUpdated, calls, hist, thrown>>

\* the query threw: catch, setLoading(false)
ListMatchesFail(c) ==
  /\ pc[c] = "getMatches"
  /\ loading' = [loading EXCEPT ![c] = FALSE]
  /\ pc' = [pc EXCEPT ![c] = "idle"]
  /\ UNCHANGED <<stores, env, leaderboard, selectedMatch, completedMatches,
                 matchId, playersData, matchDetails, leaderboardData,
                 lastUpdated, calls, hist, thrown>>

\* ----------------------------------------------------- handleMatchChange
\* onChange of the <select>, which is rendered only when loading is false
\* and completedMatches is not empty, and fires on a change of its value
HandleMatchChange(c, m) ==
  /\ pc[c] = "idle"
  /\ ~loading[c]
  /\ \E i \in 1..Len(completedMatches[c]) : completedMatches[c][i].id = m
  /\ m # selectedMatch[c]
  /\ calls[c] < MaxCalls
  /\ selectedMatch' = [selectedMatch EXCEPT ![c] = m]
  /\ BeginFetch(c, m)
  /\ UNCHANGED <<stores, env, leaderboard, completedMatches, writes, returned>>

\* the page is loaded again: a new instance of the component
Reload(c) ==
  /\ pc[c] = "idle"
  /\ calls[c] < MaxCalls
  /\ NewPage(c)
  /\ pc' = [pc EXCEPT ![c] = "new"]
  /\ matchId' = [matchId EXCEPT ![c] = "all"]
  /\ log' = [log EXCEPT ![c] = <<>>]
  /\ UNCHANGED <<stores, env, playersData, matchDetails, leaderboardData,
                 lastUpdated, calls, writes, returned, thrown>>

\* ------------------------------------------------------ fetchLeaderboard
\* fetchLeaderboard once calculateLeaderboard has returned `data`:
\* a non-empty result is written (setDoc issued), an empty one is shown
AfterCalculate(c, data, event) ==
  IF ShouldCache(data)
    THEN /\ pc' = [pc EXCEPT ![c] = "setDoc"]
         /\ leaderboardData' = [leaderboardData EXCEPT ![c] = data]
         /\ lastUpdated' = [lastUpdated EXCEPT ![c] = Date]
         /\ log' = [log EXCEPT ![c] = Append(@, event)]
         /\ UNCHANGED <<page, matchId, playersData, matchDetails, calls,
                        thrown, returned>>
    ELSE EndFetch(c, data, event, "none")

\* `err` is thrown inside calculateLeaderboard's try block
CalculateThrows(c, event, err) ==
  IF CalculateCatch(err) = "none"
    THEN AfterCalculate(c, <<>>, event)
    ELSE EndFetch(c, <<>>, event, FetchCatch(CalculateCatch(err)))

\* getDoc(leaderboardRef) returned an existing document
CacheHit(c) ==
  /\ pc[c] = "getCache"
  /\ leaderboards[matchId[c]].exists
  /\ EndFetch(c, CachedEntries(leaderboards[matchId[c]], Date),
              <<"cache", "hit">>, "none")
  /\ UNCHANGED <<stores, env, writes>>

\* getDoc(leaderboardRef) found nothing: calculateLeaderboard is entered
\* and its getDocs(playersRef) issued
CacheMiss(c) ==
  /\ pc[c] = "getCache"
  /\ ~leaderboards[matchId[c]].exists
  /\ pc' = [pc EXCEPT ![c] = "getPlayers"]
  /\ log' = [log EXCEPT ![c] = Append(@, <<"cache", "miss">>)]
  /\ UNCHANGED <<stores, env, page, matchId, playersData, matchDetails,
                 leaderboardData, lastUpdated, calls, thrown, writes, returned>>

CacheFail(c) ==
  /\ pc[c] = "getCache"
  /\ EndFetch(c, <<>>, <<"cache", "fail">>, FetchCatch("StorageUnavailable"))
  /\ UNCHANGED <<stores, env, writes>>

\* getDocs(playersRef) returned: playersData is built, getDoc(match) issued
PlayersRead(c) ==
  /\ pc[c] = "getPlayers"
  /\ playersData' = [playersData EXCEPT ![c] = players]
  /\ pc' = [pc EXCEPT ![c] = "getMatch"]
  /\ log' = [log EXCEPT ![c] = Append(@, <<"players", "ok">>)]
  /\ UNCHANGED <<stores, env, page, matchId, matchDetails, leaderboardData,
                 lastUpdated, calls, thrown, writes, returned>>

PlayersFail(c) ==
  /\ pc[c] = "getPlayers"
  /\ CalculateThrows(c, <<"players", "fail">>, "StorageUnavailable")
  /\ UNCHANGED <<stores, env, writes>>

\* getDoc(match) returned an existing match: the predictions query is issued
MatchRead(c) ==
  /\ pc[c] = "getMatch"
  /\ matches[matchId[c]].exists
  /\ matchDetails' = [matchDetails EXCEPT ![c] =
                        MatchDetails(matchId[c], matches[matchId[c]])]
  /\ pc' = [pc EXCEPT ![c] = "getPredictions"]
  /\ log' = [log EXCEPT ![c] = Append(@, <<"match", "ok">>)]
  /\ UNCHANGED <<stores, env, page, matchId, playersData, leaderboardData,
                 lastUpdated, calls, thrown, writes, returned>>

\* !matchDoc.exists(): throw new Error('Match not found')
MatchNotFound(c) ==
  /\ pc[c] = "getMatch"
  /\ ~matches[matchId[c]].exists
  /\ CalculateThrows(c, <<"match", "absent">>, "MatchNotFound")
  /\ UNCHANGED <<stores, env, writes>>

MatchFail(c) ==
  /\ pc[c] = "getMatch"
  /\ CalculateThrows(c, <<"match", "fail">>, "StorageUnavailable")
  /\ UNCHANGED <<stores, env, writes>>

\* calculateLeaderboard storing its result itself before it returns
PredictionsReadStoring(c) ==
  /\ pc[c] = "getPredictions"
  /\ LET preds == QueryPredictions(predictions, matchId[c])
         data == Calculate(matchId[c], playersData[c], matchDetails[c], preds, Date)
     IN /\ AfterCalculate(c, data,
             <<"predictions", IF Len(preds) = 0 THEN "none" ELSE "some">>)
        /\ leaderboards' = [leaderboards EXCEPT ![matchId[c]] =
                              SnapshotDoc(data, Date)]
  /\ UNCHANGED <<matches, predictions, players, env, writes>>

\* getDocs(predictionsQuery) returned: the entries are built, sorted and
\* cut, calculateLeaderboard returns and fetchLeaderboard goes on
PredictionsRead(c) ==
  /\ pc[c] = "getPredictions"
  /\ LET preds == QueryPredictions(predictions, matchId[c])
     IN AfterCalculate(c,
          Calculate(matchId[c], playersData[c], matchDetails[c], preds, Date),
          <<"predictions", IF Len(preds) = 0 THEN "none" ELSE "some">>)
  /\ UNCHANGED <<stores, env, writes>>

PredictionsFail(c) ==
  /\ pc[c] = "getPredictions"
  /\ CalculateThrows(c, <<"predictions", "fail">>, "StorageUnavailable")
  /\ UNCHANGED <<stores, env, writes>>

\* the snapshot written under the id of the first match of the list
\* instead of the id the call was made for
WriteDoneFirstListed(c) ==
  /\ pc[c] = "setDoc"
  /\ leaderboards' = [leaderboards EXCEPT ![completedMatches[c][1].id] =
                        SnapshotDoc(leaderboardData[c], lastUpdated[c])]
  /\ writes' = [writes EXCEPT ![completedMatches[c][1].id] = @ + 1]
  /\ EndFetch(c, leaderboardData[c], <<"setDoc", "ok">>, "none")
  /\ UNCHANGED <<matches, predictions, players, env>>

\* setDoc(leaderboardRef, { entries, lastUpdated }) took effect
WriteDone(c) ==
  /\ pc[c] = "setDoc"
  /\ leaderboards' = [leaderboards EXCEPT ![matchId[c]] =
                        SnapshotDoc(leaderboardData[c], lastUpdated[c])]
  /\ writes' = [writes EXCEPT ![matchId[c]] = @ + 1]
  /\ EndFetch(c, leaderboardData[c], <<"setDoc", "ok">>, "none")
  /\ UNCHANGED <<matches, predictions, players, env>>

WriteFail(c) ==
  /\ pc[c] = "setDoc"
  /\ EndFetch(c, <<>>, <<"setDoc", "fail">>, FetchCatch("StorageUnavailable"))
  /\ UNCHANGED <<stores, env, writes>>

\* ---------------------------------------------------- the other writers
Tick ==
  /\ now < MaxClock * TickMs
  /\ now' = now + TickMs
  /\ UNCHANGED <<stores, submitOrder, writerOps, page, call, hist>>

\* a user submits a prediction: a document with a fresh auto-generated id
SubmitPrediction(d, u, m, sel) ==
  /\ writerOps < MaxWriterOps
  /\ ~predictions[d].exists
  /\ predictions' = [predictions EXCEPT ![d] = PredictionDoc(u, m, sel)]
  /\ submitOrder' = Append(submitOrder, d)
  /\ writerOps' = writerOps + 1
  /\ UNCHANGED <<matches, players, leaderboards, now, page, call, hist>>

\* the actual points of a player in a match are recorded
RecordActual(p, m, v) ==
  /\ writerOps < MaxWriterOps
  /\ players[p][m].exists
  /\ players[p][m].actualPoints = <<>>
  /\ players' = [players EXCEPT ![p][m].actualPoints = <<v>>]
  /\ writerOps' = writerOps + 1
  /\ UNCHANGED <<matches, predictions, leaderboards, now, submitOrder,
                 page, call, hist>>

\* ManageMatches.handleStatusChange: updateDoc(match, { status })
HandleStatusChange(m, s) ==
  /\ writerOps < MaxWriterOps
  /\ matches[m].exists
  /\ matches[m].status # s
  /\ matches' = [matches EXCEPT ![m].status = s]
  /\ writerOps' = writerOps + 1
  /\ UNCHANGED <<predictions, players, leaderboards, now, submitOrder,
                 page, call, hist>>

\* ManageMatches.handleUpdate: updateDoc(match, { ..., timestamp, status })
HandleUpdate(m, s, secs) ==
  /\ writerOps < MaxWriterOps
  /\ matches[m].exists
  /\ matches' = [matches EXCEPT ![m] = MatchDoc(s, secs)]
  /\ writerOps' = writerOps + 1
  /\ UNCHANGED <<predictions, players, leaderboards, now, submitOrder,
                 page, call, hist>>

\* ManageMatches.handleDelete: deleteDoc(match)
HandleDelete(m) ==
  /\ writerOps < MaxWriterOps
  /\ matches[m].exists
  /\ matches' = [matches EXCEPT ![m] = NoDoc]
  /\ writerOps' = writerOps + 1
  /\ UNCHANGED <<predictions, players, leaderboards, now, submitOrder,
                 page, call, hist>>

\* -------------------------------------------------------- specifications
InitPages ==
  /\ leaderboard = [c \in Clients |-> <<>>]
  /\ loading = [c \in Clients |-> TRUE]
  /\ selectedMatch = [c \in Clients |-> "all"]
  /\ completedMatches = [c \in Clients |-> <<>>]
  /\ pc = [c \in Clients |-> "new"]
  /\ matchId = [c \in Clients |-> "all"]
  /\ playersData = [c \in Clients |-> NoPlayersData]
  /\ matchDetails = [c \in Clients |-> NoMatchDetails]
  /\ leaderboardData = [c \in Clients |-> <<>>]
  /\ lastUpdated = [c \in Clients |-> NoDate]
  /\ calls = [c \in Clients |-> 0]
  /\ thrown = [c \in Clients |-> "none"]
  /\ log = [c \in Clients |-> <<>>]
  /\ writes = [m \in MatchIds |-> 0]
  /\ returned = [m \in MatchIds |-> {}]

\* the picks of prediction document d in the running system
PicksOf(d) ==
  IF d = 1 THEN <<"p1", "p2", "p3">>
  ELSE IF d % 2 = 0 THEN <<"p2", "p1">> ELSE <<"p3", "p2">>

\* Match m2 is completed, with one prediction or none yet; the earlier
\* match m1 is completed or still live, without predictions; p1 is scored,
\* p2 has a target and no actual points yet, p3 has no target.
Init ==
  /\ \E s \in {"live", "completed"} :
       matches = [m \in MatchIds |->
                    MatchDoc(IF m = "m1" THEN s ELSE "completed", IdRank(m))]
  /\ \E first \in {NoDoc, PredictionDoc(UserOf(1), "m2", PicksOf(1))} :
       /\ predictions = [d \in PredIds |-> IF d = 1 THEN first ELSE NoDoc]
       /\ submitOrder = IF first.exists THEN <<1>> ELSE <<>>
  /\ players = [p \in Players |-> [m \in MatchIds |->
                  IF p = "p1" THEN Target(1, <<1>>)
                  ELSE IF p = "p2" THEN Target(1, <<>>)
                  ELSE NoTarget]]
  /\ leaderboards = [m \in MatchIds |-> NoDoc]
  /\ now = 0
  /\ writerOps = 0
  /\ InitPages

PageNext(c) ==
  \/ Mount(c)
  \/ ListMatches(c)
  \/ ListMatchesEmpty(c)
  \/ ListMatchesFail(c)
  \/ \E m \in MatchIds : HandleMatchChange(c, m)
  \/ Reload(c)
  \/ CacheHit(c)
  \/ CacheMiss(c)
  \/ CacheFail(c)
  \/ PlayersRead(c)
  \/ PlayersFail(c)
  \/ MatchRead(c)
  \/ MatchNotFound(c)
  \/ MatchFail(c)
  \/ PredictionsRead(c)
  \/ PredictionsFail(c)
  \/ WriteDone(c)
  \/ WriteFail(c)

WritersNext ==
  \/ Tick
  \/ \E d \in PredIds, m \in MatchIds :
       SubmitPrediction(d, UserOf(d), m, PicksOf(d))
  \/ \E p \in Players, m \in MatchIds, v \in 0..MaxPoints : RecordActual(p, m, v)
  \/ \E m \in MatchIds, s \in Statuses : HandleStatusChange(m, s)
  \/ \E m \in MatchIds, s \in Statuses, t \in MatchSeconds : HandleUpdate(m, s, t)
  \/ \E m \in MatchIds : HandleDelete(m)

Next == (\E c \in Clients : PageNext(c)) \/ WritersNext

Spec == Init /\ [][Next]_vars

\* ------------------------------------------- one get after another
NextSeq == PageNext("c1") \/ WritersNext

\* one page instance: its calls follow one another, while the other
\* writers run at any time
SpecSeq == Init /\ [][NextSeq]_vars

\* ------------------------------------------- every store call comes back
\* the steps of page instance c that wait for no user: the effect that
\* runs after the mount, and the return or the throw of the store call the
\* page instance is waiting for
PageRuns(c) ==
  \/ Mount(c)
  \/ ListMatches(c)
  \/ ListMatchesEmpty(c)
  \/ ListMatchesFail(c)
  \/ CacheHit(c)
  \/ CacheMiss(c)
  \/ CacheFail(c)
  \/ PlayersRead(c)
  \/ PlayersFail(c)
  \/ MatchRead(c)
  \/ MatchNotFound(c)
  \/ MatchFail(c)
  \/ PredictionsRead(c)
  \/ PredictionsFail(c)
  \/ WriteDone(c)
  \/ WriteFail(c)

\* Each match is completed or still live; match m2 has one prediction or
\* none.
InitLive ==
  /\ \E s \in [MatchIds -> {"live", "completed"}] :
       matches = [m \in MatchIds |-> MatchDoc(s[m], IdRank(m))]
  /\ \E first \in {NoDoc, PredictionDoc(UserOf(1), "m2", PicksOf(1))} :
       /\ predictions = [d \in PredIds |-> IF d = 1 THEN first ELSE NoDoc]
       /\ submitOrder = IF first.exists THEN <<1>> ELSE <<>>
  /\ players = [p \in Players |-> [m \in MatchIds |->
                  IF p = "p1" THEN Target(1, <<1>>)
                  ELSE IF p = "p2" THEN Target(1, <<>>)
                  ELSE NoTarget]]
  /\ leaderboards = [m \in MatchIds |-> NoDoc]
  /\ now = 0
  /\ writerOps = 0
  /\ InitPages

NextLive == PageNext("c1") \/ \E m \in MatchIds : HandleDelete(m)

\* one page instance, with matches deleted by the admin page at any time,
\* where every store call that the page instance has issued returns or
\* throws in the end
SpecLive == InitLive /\ [][NextLive]_vars /\ WF_vars(PageRuns("c1"))

\* ------------------------------------- calculateLeaderboard on its inputs
\* what a target record of a player may be
TargetOptions ==
  {NoTarget} \cup {Target(1, a) : a \in {<<>>} \cup {<<v>> : v \in 0..MaxPoints}}

\* the picks a prediction may hold
PickOptions == {<<"p1", "p2">>, <<"p1", "p2", "p3">>, <<"p3">>}

\* what prediction document d may be
PredictionOptions(d) ==
  {NoDoc, PredictionDoc(UserOf(d), "m1", <<"p1">>)}
    \cup {PredictionDoc(UserOf(d), "m2", sel) : sel \in PickOptions}

\* Any predictions and any targets for the later match, no snapshot yet.
InitCompute ==
  /\ matches = [m \in MatchIds |-> MatchDoc("completed", IdRank(m))]
  /\ \E ps \in [PredIds -> UNION {PredictionOptions(d) : d \in PredIds}] :
       /\ \A d \in PredIds : ps[d] \in PredictionOptions(d)
       /\ predictions = ps
       /\ submitOrder = InIdOrder({d \in PredIds : ps[d].exists})
  /\ \E ts \in [Players -> TargetOptions] :
       players = [p \in Players |-> [m \in MatchIds |->
                    IF m = "m2" THEN ts[p] ELSE Target(1, <<1>>)]]
  /\ leaderboards = [m \in MatchIds |-> NoDoc]
  /\ now = 0
  /\ writerOps = 0
  /\ InitPages

NextCompute ==
  \/ \E c \in {"c1"} :
       \/ Mount(c)
       \/ ListMatches(c)
       \/ CacheMiss(c)
       \/ PlayersRead(c)
       \/ MatchRead(c)
       \/ PredictionsRead(c)
       \/ WriteDone(c)
       \/ Reload(c)
       \/ CacheHit(c)

\* one page instance computes, stores and reads back the leaderboard of
\* arbitrary predictions and targets
SpecCompute == InitCompute /\ [][NextCompute]_vars

\* ------------------------------------------ predictions in any order
\* the orders in which the documents ids may have been submitted
Orders(ids) ==
  {o \in [1..Cardinality(ids) -> ids] :
     \A i, j \in 1..Cardinality(ids) : i # j => o[i] # o[j]}

\* Any predictions, submitted in any order: the id of a prediction
\* document is auto-generated, so the id order says nothing about the order
\* of submission.
InitSubmitted ==
  /\ matches = [m \in MatchIds |-> MatchDoc("completed", IdRank(m))]
  /\ \E ps \in [PredIds -> UNION {PredictionOptions(d) : d \in PredIds}] :
       /\ \A d \in PredIds : ps[d] \in PredictionOptions(d)
       /\ predictions = ps
       /\ submitOrder \in Orders({d \in PredIds : ps[d].exists})
  /\ players = [p \in Players |-> [m \in MatchIds |->
                  IF p = "p1" THEN Target(1, <<1>>)
                  ELSE IF p = "p2" THEN Target(1, <<>>)
                  ELSE NoTarget]]
  /\ leaderboards = [m \in MatchIds |-> NoDoc]
  /\ now = 0
  /\ writerOps = 0
  /\ InitPages

SpecSubmitted == InitSubmitted /\ [][NextCompute]_vars

\* ------------------------------------------------- more than ten entries
\* Document 1 is a prediction for m1; the next n documents are predictions
\* for m2, each with one correct pick of two or no correct pick of one;
\* n is 0 or around the size of the slice.
InitListed ==
  /\ matches = [m \in MatchIds |-> MatchDoc("completed", IdRank(m))]
  /\ \E n \in {0} \cup ((TopN - 1)..(MaxListed - 1)) :
       \E sel \in [2..(n + 1) -> {<<"p1", "p2">>, <<"p3">>}] :
         predictions = [d \in 1..MaxListed |->
                          IF d = 1 THEN PredictionDoc(UserOf(d), "m1", <<"p1">>)
                          ELSE IF d <= n + 1
                                 THEN PredictionDoc(UserOf(d), "m2", sel[d])
                                 ELSE NoDoc]
  /\ submitOrder = InIdOrder({d \in 1..MaxListed : predictions[d].exists})
  /\ players = [p \in Players |-> [m \in MatchIds |->
                  IF p = "p1" THEN Target(1, <<1>>)
                  ELSE IF p = "p2" THEN Target(1, <<>>)
                  ELSE NoTarget]]
  /\ leaderboards = [m \in MatchIds |-> NoDoc]
  /\ now = 0
  /\ writerOps = 0
  /\ InitPages

NextListed ==
  \/ NextCompute
  \/ \E m \in MatchIds : HandleMatchChange("c1", m)

SpecListed == InitListed /\ [][NextListed]_vars

\* ------------------------------------------------ readers of frozen data
\* Both matches are completed and have predictions; nothing but the
\* leaderboard pages and the clock runs, so matches, predictions and
\* players stay as they are.
InitFrozen ==
  /\ matches = [m \in MatchIds |-> MatchDoc("completed", IdRank(m))]
  /\ predictions = [d \in PredIds |->
                      IF d = 1 THEN PredictionDoc(UserOf(d), "m2", PicksOf(d))
                      ELSE IF d = 2 THEN PredictionDoc(UserOf(d), "m1", PicksOf(d))
                      ELSE NoDoc]
  /\ submitOrder = <<1, 2>>
  /\ players = [p \in Players |-> [m \in MatchIds |->
                  IF p = "p1" THEN Target(1, <<1>>)
                  ELSE IF p = "p2" THEN Target(1, <<>>)
                  ELSE NoTarget]]
  /\ leaderboards = [m \in MatchIds |-> NoDoc]
  /\ now = 0
  /\ writerOps = 0
  /\ InitPages

\* with both matches completed and present, the list of matches is not
\* empty and the match of a call is found
NextFrozen ==
  \/ \E c \in Clients :
       \/ Mount(c)
       \/ ListMatches(c)
       \/ ListMatchesFail(c)
       \/ \E m \in MatchIds : HandleMatchChange(c, m)
       \/ Reload(c)
       \/ CacheHit(c)
       \/ CacheMiss(c)
       \/ CacheFail(c)
       \/ PlayersRead(c)
       \/ PlayersFail(c)
       \/ MatchRead(c)
       \/ MatchFail(c)
       \/ PredictionsRead(c)
       \/ PredictionsFail(c)
       \/ WriteDone(c)
       \/ WriteFail(c)
  \/ Tick

SpecFrozen == InitFrozen /\ [][NextFrozen]_vars

\* ============================================================ properties
Last(l) == l[Len(l)]

Events(l) == {l[i] : i \in 1..Len(l)}

\* the call of page instance c has ended
Ended(c) == pc[c] = "idle" /\ Len(log[c]) > 0

\* C1: for a match that has a prediction, at most one calculateLeaderboard
\* is in flight at a time and at most one computed snapshot is written.
C1_SingleFlight ==
  \A m \in MatchIds :
    QueryPredictions(predictions, m) # <<>> =>
      /\ Cardinality({c \in Clients : pc[c] \in CalcAwaits /\ matchId[c] = m}) <= 1
      /\ writes[m] <= 1

\* C2: a snapshot that has been persisted for a match is never replaced by a
\* different value.
C2_SnapshotFinal ==
  [][\A m \in MatchIds :
       leaderboards[m].exists => leaderboards'[m] = leaderboards[m]]_vars

\* C3 as stated: calls made one after another for the same match lead to at
\* most one persisted write and all return equal snapshots (a call that
\* ended in an error returned no snapshot and is not compared).
C3_AllCallsEqual ==
  \A m \in MatchIds :
    /\ writes[m] <= 1
    /\ \A r1, r2 \in returned[m] :
         (~r1.error /\ ~r2.error) => r1.entries = r2.entries

\* C3 as amended: calls made one after another for the same match lead to at
\* most one persisted write, and all the calls that return a non-empty
\* snapshot return equal snapshots.
C3_NonEmptyCallsEqual ==
  \A m \in MatchIds :
    /\ writes[m] <= 1
    /\ \A r1, r2 \in returned[m] :
         (r1.entries # <<>> /\ r2.entries # <<>>) => r1.entries = r2.entries

\* a second call of the page instance was served the snapshot that its
\* first call computed and wrote
C3_Witness ==
  /\ Ended("c1")
  /\ calls["c1"] = 2
  /\ log["c1"] = << <<"cache", "hit">> >>
  /\ leaderboard["c1"] # <<>>
  /\ writes[matchId["c1"]] = 1
  /\ Cardinality(returned[matchId["c1"]]) = 1

\* C4: a call that finds no prediction for its match ends there, without an
\* error, shows an empty leaderboard and writes nothing.
C4_EmptyNotPersisted ==
  \A c \in Clients :
    <<"predictions", "none">> \in Events(log[c]) =>
      /\ pc[c] = "idle"
      /\ Last(log[c]) = <<"predictions", "none">>
      /\ leaderboard[c] = <<>>
      /\ thrown[c] = "none"

\* a call for a match without predictions has ended and nothing is stored
C4_Witness ==
  \E c \in Clients :
    /\ Ended(c)
    /\ log[c] = << <<"cache", "miss">>, <<"players", "ok">>, <<"match", "ok">>,
                   <<"predictions", "none">> >>
    /\ QueryPredictions(predictions, matchId[c]) = <<>>
    /\ ~leaderboards[matchId[c]].exists

\* C5: the step of a call that finds a stored snapshot ends the call with
\* exactly the stored entries, after that one store access, and leaves
\* every collection as it was.
C5_CacheHit ==
  [][\A c \in Clients :
       (/\ pc[c] = "getCache"
        /\ pc'[c] # "getCache"
        /\ leaderboards[matchId[c]].exists
        /\ Last(log'[c]) # <<"cache", "fail">>)
       => /\ pc'[c] = "idle"
          /\ log'[c] = << <<"cache", "hit">> >>
          /\ [i \in 1..Len(leaderboard'[c]) |-> ToFirestore(leaderboard'[c][i])]
               = leaderboards[matchId[c]].entries
          /\ stores' = stores
          /\ writes' = writes]_vars

\* what a computation from the collections as they are now would give:
\* the users and their correct picks
Recomputed(m) ==
  LET data == Calculate(m, players, MatchDetails(m, matches[m]),
                        QueryPredictions(predictions, m), Date)
  IN [i \in 1..Len(data) |-> <<data[i].userId, data[i].correctPredictions>>]

\* a call was served a stored snapshot that a computation would no longer give
C5_Witness ==
  \E c \in Clients :
    /\ Ended(c)
    /\ log[c] = << <<"cache", "hit">> >>
    /\ leaderboard[c] # <<>>
    /\ matches[matchId[c]].exists
    /\ Recomputed(matchId[c]) #
         [i \in 1..Len(leaderboard[c]) |->
            <<leaderboard[c][i].userId, leaderboard[c][i].correctPredictions>>]

\* C6: a call whose match does not exist ends with MatchNotFound reaching
\* its caller.
C6_NotFoundPropagates ==
  \A c \in Clients :
    (Ended(c) /\ <<"match", "absent">> \in Events(log[c]))
      => thrown[c] = "MatchNotFound"

\* C7: a call in which a store access failed ends with StorageUnavailable
\* reaching its caller.
C7_StorageFailurePropagates ==
  \A c \in Clients :
    (Ended(c) /\ \E e \in Events(log[c]) : e[2] = "fail")
      => thrown[c] = "StorageUnavailable"

\* the pick of player p counts for match m, by the players collection
Meets(p, m) ==
  /\ players[p][m].exists
  /\ players[p][m].actualPoints # <<>>
  /\ players[p][m].actualPoints[1] >= players[p][m].target

\* the value calculateLeaderboard has just returned to page instance c
Computed(c) == pc[c] = "setDoc"

\* C8: every prediction of the match has one entry, whose correctPredictions
\* is the number of its picks that have a target record with actual points
\* at or above the target, and whose totalPredictions is the size of the
\* selection.
C8_CorrectPicks ==
  \A c \in Clients :
    Computed(c) =>
      LET preds == QueryPredictions(predictions, matchId[c])
          data == leaderboardData[c]
      IN /\ Len(data) = Len(preds)
         /\ \A k \in 1..Len(preds) :
              \E i \in 1..Len(data) :
                /\ data[i].userId = preds[k].userId
                /\ data[i].correctPredictions =
                     Cardinality({j \in 1..Len(preds[k].selectedPlayers) :
                                    Meets(preds[k].selectedPlayers[j], matchId[c])})
                /\ data[i].totalPredictions =
                     Cardinality({preds[k].selectedPlayers[j] :
                                    j \in 1..Len(preds[k].selectedPlayers)})

\* an entry with a correct pick, a pick without target record and a pick
\* without actual points
C8_Witness ==
  \E c \in Clients :
    /\ Computed(c)
    /\ \E k \in 1..Len(QueryPredictions(predictions, matchId[c])) :
         LET sel == QueryPredictions(predictions, matchId[c])[k].selectedPlayers
         IN /\ \E j \in 1..Len(sel) : Meets(sel[j], matchId[c])
            /\ \E j \in 1..Len(sel) : ~players[sel[j]][matchId[c]].exists
            /\ \E j \in 1..Len(sel) :
                 /\ players[sel[j]][matchId[c]].exists
                 /\ players[sel[j]][matchId[c]].actualPoints = <<>>

InRange(entries) ==
  \A i \in 1..Len(entries) :
    /\ 0 <= entries[i].correctPredictions
    /\ entries[i].correctPredictions <= entries[i].totalPredictions

\* C9: every entry computed, shown or stored has
\* 0 <= correctPredictions <= totalPredictions.
C9_CorrectWithinTotal ==
  /\ \A c \in Clients : InRange(leaderboardData[c]) /\ InRange(leaderboard[c])
  /\ \A m \in MatchIds : leaderboards[m].exists => InRange(leaderboards[m].entries)

\* a snapshot read from the cache with an entry of all picks correct and an
\* entry of no pick correct
C9_Witness ==
  \E c \in Clients :
    /\ Ended(c)
    /\ log[c] = << <<"cache", "hit">> >>
    /\ \E i, j \in 1..Len(leaderboard[c]) :
         /\ leaderboard[c][i].correctPredictions = leaderboard[c][i].totalPredictions
         /\ leaderboard[c][j].correctPredictions = 0
         /\ leaderboard[c][j].totalPredictions > 0

Descending(entries) ==
  \A i, j \in 1..Len(entries) :
    i < j => entries[i].correctPredictions >= entries[j].correctPredictions

\* C10: the entries calculateLeaderboard returns, and those shown, are in
\* descending order of correctPredictions.
C10_Descending ==
  \A c \in Clients : Descending(leaderboardData[c]) /\ Descending(leaderboard[c])

\* predictions read with 2, 3 and 1 correct picks are returned as 3, 2, 1
C10_Witness ==
  \E c \in Clients :
    /\ Computed(c)
    /\ LET preds == QueryPredictions(predictions, matchId[c])
           count(k) == Cardinality({j \in 1..Len(preds[k].selectedPlayers) :
                                      Meets(preds[k].selectedPlayers[j], matchId[c])})
       IN /\ Len(preds) = 3
          /\ <<count(1), count(2), count(3)>> = <<2, 3, 1>>
    /\ [i \in 1..Len(leaderboardData[c]) |-> leaderboardData[c][i].correctPredictions]
         = <<3, 2, 1>>

\* the place of the prediction of user u in the order of submission
SubmitPlace(u) ==
  CHOOSE k \in 1..Len(submitOrder) :
    predictions[submitOrder[k]].userId = u

\* C11: of two entries of the computed snapshot with equal
\* correctPredictions, the one whose prediction was submitted earlier comes
\* first.
C11_EarlierFirst ==
  \A c \in Clients :
    Computed(c) =>
      \A i, j \in 1..Len(leaderboardData[c]) :
        (/\ i < j
         /\ leaderboardData[c][i].correctPredictions
              = leaderboardData[c][j].correctPredictions)
          => SubmitPlace(leaderboardData[c][i].userId)
               < SubmitPlace(leaderboardData[c][j].userId)

Min(a, b) == IF a <= b THEN a ELSE b

\* the correct picks of prediction document pred of match m
CorrectOf(pred, m) ==
  Cardinality({j \in 1..Len(pred.selectedPlayers) :
                 Meets(pred.selectedPlayers[j], m)})

\* data holds min(P, n) of the P predictions preds of match m, and no
\* prediction left out has more correct picks than an entry of data
TopOf(data, preds, m, n) ==
  /\ Len(data) = Min(Len(preds), n)
  /\ \A i \in 1..Len(data) :
       \E k \in 1..Len(preds) :
         /\ preds[k].userId = data[i].userId
         /\ CorrectOf(preds[k], m) = data[i].correctPredictions
  /\ \A i, j \in 1..Len(data) : i # j => data[i].userId # data[j].userId
  /\ \A k \in 1..Len(preds) :
       (\A i \in 1..Len(data) : data[i].userId # preds[k].userId)
         => \A i \in 1..Len(data) :
              CorrectOf(preds[k], m) <= data[i].correctPredictions

\* the computed snapshot is the top n of the predictions of its match
TruncatedAt(n) ==
  \A c \in Clients :
    Computed(c) =>
      TopOf(leaderboardData[c], QueryPredictions(predictions, matchId[c]),
            matchId[c], n)

\* C12: the computed snapshot of a match with P predictions has exactly
\* min(P, N) entries, the N highest ranked, for the one top-size N that the
\* page announces in its heading and applies in the truncation.
C12_TopSize == TruncatedAt(TopN) /\ TruncatedAt(TopLabel)

\* C13: two computations for the same match over unchanged matches,
\* predictions and players return the same entries with the same field
\* values in the same order.
C13_Deterministic ==
  \A c1, c2 \in Clients :
    (Computed(c1) /\ Computed(c2) /\ matchId[c1] = matchId[c2])
      => leaderboardData[c1] = leaderboardData[c2]

\* C14: when fetchCompletedMatches ends, the matches it has listed are the
\* matches whose status is completed and no other, most recent timestamp
\* first.
C14_CompletedLatestFirst ==
  [][\A c \in Clients :
       (pc[c] = "getMatches" /\ pc'[c] # "getMatches") =>
         LET listed == completedMatches'[c]
             at(i) == matches[listed[i].id].timestamp
         IN /\ \A i \in 1..Len(listed) :
                 /\ matches[listed[i].id].exists
                 /\ matches[listed[i].id].status = "completed"
            /\ \A i, j \in 1..Len(listed) :
                 i < j =>
                   \/ at(i).seconds > at(j).seconds
                   \/ /\ at(i).seconds = at(j).seconds
                      /\ at(i).nanoseconds >= at(j).nanoseconds
            /\ pc'[c] = "getCache" =>
                 \A m \in MatchIds :
                   (matches[m].exists /\ matches[m].status = "completed")
                     => \E i \in 1..Len(listed) : listed[i].id = m]_vars

\* two completed matches are listed, the later one first although its
\* document comes second in the query
C14_Witness ==
  \E c \in Clients :
    /\ pc[c] # "new" /\ pc[c] # "getMatches"
    /\ Len(completedMatches[c]) = 2
    /\ completedMatches[c][1].timestamp.ms > completedMatches[c][2].timestamp.ms
    /\ IdRank(completedMatches[c][1].id) > IdRank(completedMatches[c][2].id)

\* C15: whenever a snapshot is written to leaderboards, the match it is
\* written for has status completed at that moment.
C15_WrittenOnlyForCompleted ==
  [][\A m \in MatchIds :
       leaderboards'[m] # leaderboards[m] =>
         (matches[m].exists /\ matches[m].status = "completed")]_vars

\* C16: the predictions query of a call reports no prediction only when the
\* match has none at that moment, and a call that ends with no store access
\* failed and with predictions read (or a snapshot found) shows a non-empty
\* leaderboard whose snapshot is in leaderboards; so a call made once a
\* prediction exists, after a call that showed an empty leaderboard and
\* wrote nothing, computes again, shows entries and leaves them stored.
C16_RetryAfterEmpty ==
  [][\A c \in Clients :
       /\ (/\ pc[c] = "getPredictions"
           /\ Last(log'[c]) = <<"predictions", "none">>)
            => QueryPredictions(predictions, matchId[c]) = <<>>
       /\ (/\ pc[c] # "idle" /\ pc'[c] = "idle"
           /\ Len(log'[c]) > 0
           /\ ~Errored(log'[c])
           /\ <<"predictions", "none">> \notin Events(log'[c]))
            => /\ leaderboard'[c] # <<>>
               /\ leaderboards'[matchId[c]].exists
               /\ Len(leaderboards'[matchId[c]].entries) = Len(leaderboard'[c])
               /\ \A i \in 1..Len(leaderboard'[c]) :
                    leaderboards'[matchId[c]].entries[i].userId
                      = leaderboard'[c][i].userId]_vars

\* the first call found no prediction, showed nothing and wrote nothing; a
\* prediction was submitted; the second call missed the cache, computed a
\* non-empty snapshot and wrote it
C16_Witness ==
  /\ Ended("c1")
  /\ calls["c1"] = 2
  /\ [entries |-> <<>>, error |-> FALSE] \in returned[matchId["c1"]]
  /\ log["c1"] = << <<"cache", "miss">>, <<"players", "ok">>, <<"match", "ok">>,
                    <<"predictions", "some">>, <<"setDoc", "ok">> >>
  /\ leaderboard["c1"] # <<>>
  /\ leaderboards[matchId["c1"]].exists
  /\ writes[matchId["c1"]] = 1

\* C17: every snapshot in leaderboards is not empty, has at most TopN
\* entries in descending order of correctPredictions, and every entry of it
\* carries the match id the snapshot is stored under; so is every snapshot
\* that a call has read from leaderboards.
C17_StoredComplete ==
  /\ \A m \in MatchIds :
       leaderboards[m].exists =>
         /\ leaderboards[m].entries # <<>>
         /\ Len(leaderboards[m].entries) <= TopN
         /\ Descending(leaderboards[m].entries)
         /\ \A i \in 1..Len(leaderboards[m].entries) :
              leaderboards[m].entries[i].matchId = m
  /\ \A c \in Clients :
       (Ended(c) /\ log[c] = << <<"cache", "hit">> >>) =>
         /\ leaderboard[c] # <<>>
         /\ Len(leaderboard[c]) <= TopN
         /\ Descending(leaderboard[c])
         /\ \A i \in 1..Len(leaderboard[c]) :
              leaderboard[c][i].matchId = matchId[c]

\* a match with more than TopN predictions, the first of them with no
\* correct pick and a later one with a correct pick, has a stored snapshot
\* of TopN entries, which a call has read
C17_Witness ==
  \E c \in Clients :
    /\ Ended(c)
    /\ log[c] = << <<"cache", "hit">> >>
    /\ LET preds == QueryPredictions(predictions, matchId[c])
       IN /\ Len(preds) > TopN
          /\ CorrectOf(preds[1], matchId[c]) = 0
          /\ \E k \in 2..Len(preds) : CorrectOf(preds[k], matchId[c]) = 1
    /\ Len(leaderboards[matchId[c]].entries) = TopN
    /\ Len(leaderboard[c]) = TopN

\* every result returned without an error for match m is made of the
\* predictions of m alone: one entry for each of them (up to TopN), with its
\* user, its correct picks and the id m
OwnResults(m) ==
  \A r \in returned[m] :
    ~r.error =>
      LET preds == QueryPredictions(predictions, m)
      IN /\ Len(r.entries) = Min(Len(preds), TopN)
         /\ \A i \in 1..Len(r.entries) :
              /\ r.entries[i].matchId = m
              /\ \E k \in 1..Len(preds) :
                   /\ preds[k].userId = r.entries[i].userId
                   /\ CorrectOf(preds[k], m) = r.entries[i].correctPredictions

\* C18: a step changes the stored snapshot of a match only when it is the
\* write of a call made for that match, so the calls for another match
\* leave it as it is; and, with page instances working on different
\* matches at the same time, what is stored and returned for a match is
\* made of the predictions of that match alone.
C18_MatchesIndependent ==
  [][/\ \A m \in MatchIds :
          leaderboards'[m] # leaderboards[m] =>
            \E c \in Clients :
              /\ pc[c] = "setDoc" /\ pc'[c] = "idle"
              /\ matchId[c] = m
              /\ leaderboards'[m] = SnapshotDoc(leaderboardData[c], lastUpdated[c])
     /\ \A m \in MatchIds : OwnResults(m)'
     /\ \A m \in MatchIds :
          leaderboards'[m].exists =>
            \A i \in 1..Len(leaderboards'[m].entries) :
              /\ leaderboards'[m].entries[i].matchId = m
              /\ \E k \in 1..Len(QueryPredictions(predictions, m)) :
                   QueryPredictions(predictions, m)[k].userId
                     = leaderboards'[m].entries[i].userId]_vars

\* one page instance has written the snapshot of m2 and shows it, while
\* the other is about to write the snapshot it computed for m1
C18_Witness ==
  \E c1, c2 \in Clients :
    /\ Ended(c1) /\ matchId[c1] = "m2"
    /\ Last(log[c1]) = <<"setDoc", "ok">>
    /\ leaderboards["m2"].exists
    /\ pc[c2] = "setDoc" /\ matchId[c2] = "m1"
    /\ ~leaderboards["m1"].exists

\* a step of a leaderboard page: the listing, a call of fetchLeaderboard
\* or one of its resumptions
PageStep == pc' # pc

\* C19: no step of a leaderboard page changes matches, predictions or
\* players; no step of calculateLeaderboard changes leaderboards; and the
\* only change a page step makes to leaderboards is the snapshot that
\* fetchLeaderboard writes for the match it was called for.
C19_NoSideEffects ==
  [][PageStep =>
       /\ matches' = matches
       /\ predictions' = predictions
       /\ players' = players
       /\ (\E c \in Clients : pc[c] \in CalcAwaits /\ pc'[c] # pc[c])
            => leaderboards' = leaderboards
       /\ \A m \in MatchIds :
            leaderboards'[m] # leaderboards[m] =>
              \E c \in Clients :
                /\ pc[c] = "setDoc" /\ pc'[c] = "idle"
                /\ matchId[c] = m
                /\ \A o \in MatchIds \ {m} : leaderboards'[o] = leaderboards[o]]_vars

\* a call has computed and written a snapshot after the stores were
\* changed by another writer, and the stores hold what that writer left
C19_Witness ==
  \E c \in Clients :
    /\ Ended(c)
    /\ Last(log[c]) = <<"setDoc", "ok">>
    /\ writerOps > 0
    /\ leaderboards[matchId[c]].exists
    /\ \E d \in PredIds : predictions[d].exists
    /\ \E m \in MatchIds : matches[m].exists

\* the event is a failed read of calculateLeaderboard or a match not found
CalcFailure(event) ==
  /\ event[1] \in {"players", "match", "predictions"}
  /\ event[2] \in {"fail", "absent"}

\* C20: when a read of calculateLeaderboard fails or the match is not
\* found, the call ends there: leaderboards is left as it was, no setDoc is
\* issued and the page shows an empty leaderboard; a call with such a
\* failure in its log never reaches setDoc.
C20_FailureWritesNothing ==
  [][\A c \in Clients :
       /\ (/\ pc[c] \in CalcAwaits
           /\ pc'[c] # pc[c]
           /\ CalcFailure(Last(log'[c])))
            => /\ leaderboards' = leaderboards
               /\ writes' = writes
               /\ pc'[c] = "idle"
               /\ leaderboard'[c] = <<>>
       /\ (\E i \in 1..Len(log'[c]) : CalcFailure(log'[c][i]))
            => /\ pc'[c] # "setDoc"
               /\ \A i \in 1..Len(log'[c]) : log'[c][i][1] # "setDoc"]_vars

\* a call for a match that has a prediction and no snapshot has just failed
\* inside calculateLeaderboard, after a successful read; the match is still
\* without a snapshot and the page instance can make another call
C20_Witness ==
  \E c \in Clients :
    /\ Ended(c)
    /\ Len(log[c]) > 2
    /\ CalcFailure(Last(log[c]))
    /\ QueryPredictions(predictions, matchId[c]) # <<>>
    /\ ~leaderboards[matchId[c]].exists
    /\ leaderboard[c] = <<>>
    /\ calls[c] < MaxCalls

\* a fetchLeaderboard call of page instance c is between its first await
\* and its end
InFlight(c) ==
  pc[c] \in {"getCache", "getPlayers", "getMatch", "getPredictions", "setDoc"}

\* C21: a page instance whose loading is false (the selector is rendered)
\* has no listing and no fetchLeaderboard in flight; a fetchLeaderboard
\* begins only when none is in flight, and on a change of match only when
\* loading is false; and when loading is false the leaderboard shown is
\* empty or made of entries of the selected match.
C21_OneFetchShownMatchesSelected ==
  [][\A c \in Clients :
       /\ ~loading'[c] => pc'[c] = "idle"
       /\ calls'[c] # calls[c] =>
            /\ ~InFlight(c)
            /\ pc[c] = "idle" => ~loading[c]
            /\ matchId'[c] = selectedMatch'[c]
       /\ InFlight(c)' => matchId'[c] = selectedMatch'[c]
       /\ (~loading'[c] /\ leaderboard'[c] # <<>>) =>
            \A i \in 1..Len(leaderboard'[c]) :
              leaderboard'[c][i].matchId = selectedMatch'[c]]_vars

\* the page instance showed entries of m2, the match was changed to m1 and
\* it now shows entries of m1
C21_Witness ==
  \E c \in Clients :
    /\ Ended(c)
    /\ ~loading[c]
    /\ calls[c] = 2
    /\ selectedMatch[c] = "m1"
    /\ leaderboard[c] # <<>>
    /\ \E r \in returned["m2"] : r.entries # <<>>

\* C22: a page instance that is loading (mounted, listing the matches or
\* inside fetchLeaderboard) comes to rest with loading false, whatever the
\* store calls return.
C22_LoadingEnds ==
  \A c \in {"c1"} :
    (loading[c] \/ pc[c] # "idle") ~> (pc[c] = "idle" /\ ~loading[c])

\* the second fetchLeaderboard call of the page instance had a store call
\* fail, and has ended with loading false
C22_Witness ==
  /\ pc["c1"] = "idle"
  /\ ~loading["c1"]
  /\ calls["c1"] = 2
  /\ Len(log["c1"]) > 0
  /\ Errored(log["c1"])

\* match m is in the matches collection with status completed
IsCompleted(m) == matches[m].exists /\ matches[m].status = "completed"

\* C23: when the listing of the initial load ends, either a fetchLeaderboard
\* is issued, and then for the selected match, which is a completed match
\* with no completed match of a later timestamp; or the page instance comes
\* to rest with no match selected, no call issued and nothing shown, which
\* is the only outcome while no completed match exists. The listing itself
\* writes nothing to leaderboards.
C23_InitialLoad ==
  [][\A c \in Clients :
       (pc[c] = "getMatches" /\ pc'[c] # "getMatches") =>
         /\ leaderboards' = leaderboards
         /\ writes' = writes
         /\ \/ /\ pc'[c] = "getCache"
               /\ calls'[c] = calls[c] + 1
               /\ loading'[c]
               /\ matchId'[c] = selectedMatch'[c]
               /\ selectedMatch'[c] \in MatchIds
               /\ IsCompleted(selectedMatch'[c])
               /\ \A m \in MatchIds :
                    IsCompleted(m) =>
                      matches[m].timestamp.seconds
                        <= matches[selectedMatch'[c]].timestamp.seconds
            \/ /\ pc'[c] = "idle"
               /\ calls'[c] = calls[c]
               /\ ~loading'[c]
               /\ selectedMatch'[c] = "all"
               /\ leaderboard'[c] = <<>>
         /\ (\A m \in MatchIds : ~IsCompleted(m)) => pc'[c] = "idle"
         /\ (\E m \in MatchIds : IsCompleted(m)) => ~ENABLED ListMatchesEmpty(c)]_vars

\* both matches are completed and the initial load has issued the call for
\* m2, the later one
C23_Witness ==
  \E c \in Clients :
    /\ pc[c] = "getCache"
    /\ log[c] = <<>>
    /\ selectedMatch[c] = "m2"
    /\ Len(completedMatches[c]) = 2
    /\ IsCompleted("m1") /\ IsCompleted("m2")
    /\ matches["m1"].timestamp.seconds < matches["m2"].timestamp.seconds

====
